---- MODULE Spec2Model ----
(***************************************************************************)
(* Model of Azure::Core::Http::Response (sdk/core/azure-core/src/http/     *)
(* response.cpp) and of the bulk read of a BodyStream used by the storage  *)
(* tests (sdk/storage/test/test_base.hpp).                                 *)
(*                                                                         *)
(* A std::string is a sequence of one-character strings.  The header       *)
(* collection m_headers is a std::map<std::string, std::string>; it is the *)
(* set of its <<name, value>> entries, and std::map keeps at most one      *)
(* entry per name.                                                         *)
(***************************************************************************)
EXTENDS Integers, Sequences, FiniteSets

VARIABLES
  m_statusCode,    \* Response::m_statusCode
  m_reasonPhrase,  \* Response::m_reasonPhrase
  m_headers,       \* Response::m_headers, the set of <<name, value>> entries
  m_bodyStream,    \* Response::m_bodyStream: a stream id, or NoStream (nullptr)
  streams,         \* the BodyStream objects created so far, by id
  rd,              \* the bulk read in progress (BodyStream::ReadToEnd)
  cancelled,       \* whether the caller's Context has been cancelled
  ctor,            \* the arguments the Response was constructed with
  last             \* the last call made on the Response, with its arguments

vars == <<m_statusCode, m_reasonPhrase, m_headers, m_bodyStream, streams, rd,
          cancelled, ctor, last>>

---------------------------------------------------------------------------
(* Bounds *)

\* longest raw line handed to AddHeaderLine when one line is parsed
MaxParseLen == 5
\* number of BodyStream objects the transport creates for one Response
MaxStreams == 2
\* chunks a BodyStream yields before end-of-stream
MaxChunks == 2
\* bytes in one chunk
MaxChunkLen == 2

---------------------------------------------------------------------------
(* Characters and strings *)

Colon == ":"
Space == " "
Tab == "\t"
CR == "\r"
LF == "\n"

Chars == {"a", "A", Colon, Space, Tab, CR, LF}

SeqsUpTo(S, n) == UNION {[1..k -> S] : k \in 0..n}

\* the lines of the one-line parse
ParseLines == SeqsUpTo(Chars, MaxParseLen)

\* names and values of the headers of a whole Response
HeaderNames == {<<"a">>, <<"A">>}
HeaderValues == {<<"a">>, <<"A">>}
Blanks == {<<>>, <<Space>>, <<Tab>>}
Terminators == {<<>>, <<CR>>}

\* the raw lines a transport hands to a Response: headers, and lines without ':'
HeaderLines ==
  {n \o <<Colon>> \o b \o v \o t :
      n \in HeaderNames, b \in Blanks, v \in HeaderValues, t \in Terminators}
  \cup {n \o t : n \in HeaderNames \cup {<<>>}, t \in Terminators}

\* the bodies a transport attaches to a Response
ResponseBodies == {<<>>, <<(<<1>>)>>, <<(<<1, 2>>), (<<2>>)>>}

Bytes == {1, 2}
Chunks == SeqsUpTo(Bytes, MaxChunkLen) \ {<<>>}
\* what a BodyStream yields: its chunks, in the order successive reads return them
Chunkings == SeqsUpTo(Chunks, MaxChunks)

RECURSIVE Flatten(_)
Flatten(cs) == IF cs = <<>> THEN <<>> ELSE Head(cs) \o Flatten(Tail(cs))

StatusCodes == {200, 404}
ReasonPhrases == {"OK", "Not Found"}

NoStream == 0
StreamIds == 1..MaxStreams

---------------------------------------------------------------------------
(* Response: accessors *)

GetStatusCode == m_statusCode

GetReasonPhrase == m_reasonPhrase

GetHeaders == m_headers

---------------------------------------------------------------------------
(* Response::AddHeader(std::string const& header) *)

\* the search that returns the last occurrence instead of the first
FindCharLast(s, first, c) ==
  LET hits == {i \in first..Len(s) : s[i] = c}
  IN  IF hits = {} THEN Len(s) + 1
      ELSE CHOOSE i \in hits : \A j \in hits : j <= i

\* std::find(first, end, c) on positions first..Len(s); Len(s) + 1 is end()
FindChar(s, first, c) ==
  LET hits == {i \in first..Len(s) : s[i] = c}
  IN  IF hits = {} THEN Len(s) + 1
      ELSE CHOOSE i \in hits : \A j \in hits : i <= j

\* the character at a position, and what lies behind the last one
CharAt(s, i) == IF i <= Len(s) THEN s[i] ELSE "\\0"

\* the loop without the test  start < header.end()
RECURSIVE SkipBlanksUnbounded(_, _, _)
SkipBlanksUnbounded(s, start, reads) ==
  IF CharAt(s, start) = Space \/ CharAt(s, start) = Tab
    THEN SkipBlanksUnbounded(s, start + 1, reads \cup {start})
    ELSE [start |-> start, reads |-> reads \cup {start}]

\* the loop skipping every white space (std::isspace), '\r' and '\n' included
RECURSIVE SkipWhitespace(_, _, _)
SkipWhitespace(s, start, reads) ==
  IF start < Len(s) + 1
    THEN IF s[start] \in {Space, Tab, CR, LF}
           THEN SkipWhitespace(s, start + 1, reads \cup {start})
           ELSE [start |-> start, reads |-> reads \cup {start}]
    ELSE [start |-> start, reads |-> reads]

\* the loop  while (start < header.end() && (*start == ' ' || *start == '\t'))
\* [start |-> where it stops, reads |-> the positions it dereferences]
RECURSIVE SkipBlanks(_, _, _)
SkipBlanks(s, start, reads) ==
  IF start < Len(s) + 1
    THEN IF s[start] = Space \/ s[start] = Tab
           THEN SkipBlanks(s, start + 1, reads \cup {start})
           ELSE [start |-> start, reads |-> reads \cup {start}]
    ELSE [start |-> start, reads |-> reads]

\* the comparison made against the last character instead of header.end()
IsHeaderLineOffByOne(header) == FindChar(header, 1, Colon) # Len(header)

\* end == header.end(): no ':' in the line
IsHeaderLine(header) == FindChar(header, 1, Colon) # Len(header) + 1

HeaderName(header) == SubSeq(header, 1, FindChar(header, 1, Colon) - 1)

ValueStart(header) == SkipBlanks(header, FindChar(header, 1, Colon) + 1, {})

\* the value taken up to header.end(), the '\r' not cut
HeaderValueToEnd(header) ==
  SubSeq(header, ValueStart(header).start, Len(header))

HeaderValue(header) ==
  LET start == ValueStart(header).start
  IN  SubSeq(header, start, FindChar(header, start, CR) - 1)

ToLower(c) == IF c = "A" THEN "a" ELSE c

LowerCase(str) == [i \in 1..Len(str) |-> ToLower(str[i])]

\* a map whose keys compare without regard to case
InsertIgnoringCase(headers, name, value) ==
  IF \E e \in headers : LowerCase(e[1]) = LowerCase(name) THEN headers
  ELSE headers \cup {<<name, value>>}

\* m_headers[name] = value: the value held under the name is replaced
InsertOverwriting(headers, name, value) ==
  {e \in headers : e[1] # name} \cup {<<name, value>>}

\* m_headers.insert(pair(name, value)) on a std::map: a no-op when the key exists
Insert(headers, name, value) ==
  IF \E e \in headers : e[1] = name THEN headers
  ELSE headers \cup {<<name, value>>}

Idle == rd.pc = "idle"

AddHeaderLine(header) ==
  /\ Idle
  /\ m_headers' = IF IsHeaderLine(header)
                    THEN Insert(m_headers, HeaderName(header), HeaderValue(header))
                    ELSE m_headers
  /\ last' = [op |-> "AddHeaderLine", header |-> header]
  /\ UNCHANGED <<m_statusCode, m_reasonPhrase, m_bodyStream, streams, rd,
                 cancelled, ctor>>

\* the value also assigned to the reason phrase
AddHeaderIntoReason(name, value) ==
  /\ Idle
  /\ m_headers' = Insert(m_headers, name, value)
  /\ m_reasonPhrase' = value
  /\ last' = [op |-> "AddHeader", name |-> name, value |-> value]
  /\ UNCHANGED <<m_statusCode, m_bodyStream, streams, rd, cancelled, ctor>>

(* Response::AddHeader(std::string const& name, std::string const& value) *)
AddHeader(name, value) ==
  /\ Idle
  /\ m_headers' = Insert(m_headers, name, value)
  /\ last' = [op |-> "AddHeader", name |-> name, value |-> value]
  /\ UNCHANGED <<m_statusCode, m_reasonPhrase, m_bodyStream, streams, rd,
                 cancelled, ctor>>

---------------------------------------------------------------------------
(* Response::SetBodyStream(std::unique_ptr<BodyStream> stream) *)

Released == [released |-> TRUE]

\* failAt: the incremental read that fails with an I/O failure, NeverFails if none
NeverFails == 0

NewStream(chunks) ==
  [released |-> FALSE, chunks |-> chunks, pos |-> 0, failAt |-> NeverFails]

\* a stream whose k-th incremental read fails
FailingStream(chunks, k) == [NewStream(chunks) EXCEPT !.failAt = k]

Live(id) == id \in DOMAIN streams /\ ~streams[id].released

\* the stream held before is let go of, not destroyed
MoveAssignLeaking(held, stream, heap) == heap

\* m_bodyStream = std::move(stream): the move assignment of a unique_ptr
\* destroys the object held before
MoveAssign(held, stream, heap) ==
  IF held # NoStream
    THEN [heap EXCEPT ![held] = Released]
    ELSE heap

\* stream is nullptr (chunks unused) or the stream the transport has just created
SetBodyStream(stream, chunks) ==
  /\ Idle
  /\ \/ stream = NoStream
     \/ stream = Len(streams) + 1 /\ stream \in StreamIds
  /\ LET heap == IF stream = NoStream THEN streams
                 ELSE Append(streams, NewStream(chunks))
     IN  streams' = MoveAssign(m_bodyStream, stream, heap)
  /\ m_bodyStream' = stream
  /\ last' = [op |-> "SetBodyStream", stream |-> stream, held |-> m_bodyStream]
  /\ UNCHANGED <<m_statusCode, m_reasonPhrase, m_headers, rd, cancelled, ctor>>

---------------------------------------------------------------------------
(* BodyStream: incremental read and bulk read-to-end *)

NotReading == [pc |-> "idle"]

\* one incremental read: the next chunk, or no byte at end-of-stream
Read(s) == IF s.pos < Len(s.chunks) THEN s.chunks[s.pos + 1] ELSE <<>>

\* a read that moves the cursor past two chunks
AdvanceSkipping(s) ==
  IF s.pos < Len(s.chunks)
    THEN [s EXCEPT !.pos = IF s.pos + 2 <= Len(s.chunks) THEN s.pos + 2
                            ELSE Len(s.chunks)]
    ELSE s

Advance(s) == IF s.pos < Len(s.chunks) THEN [s EXCEPT !.pos = s.pos + 1] ELSE s

\* the incremental read the cursor stands at fails with an I/O failure
Fails(s) == s.failAt = s.pos + 1

\* a caller reads one chunk of the stream directly
ReadChunk(id) ==
  /\ Idle
  /\ Live(id)
  /\ streams' = IF Fails(streams[id]) THEN streams
                ELSE [streams EXCEPT ![id] = Advance(streams[id])]
  /\ last' = [op |-> "Read", stream |-> id, from |-> streams[id].pos,
              outcome |-> IF Fails(streams[id]) THEN "failed" ELSE "ok",
              result |-> IF Fails(streams[id]) THEN <<>> ELSE Read(streams[id])]
  /\ UNCHANGED <<m_statusCode, m_reasonPhrase, m_headers, m_bodyStream, rd,
                 cancelled, ctor>>

\* what the call before a bulk read was, and how it ended
Summary(call) ==
  IF call.op = "ReadToEnd" THEN <<call.op, call.stream, call.outcome>>
  ELSE <<call.op>>

\* BodyStream::ReadToEnd(context, body) is entered, through `via`
BeginReadToEnd(id, context, via) ==
  /\ Idle
  /\ Live(id)
  /\ rd' = [pc |-> "reading", stream |-> id, context |-> context, via |-> via,
            buffer |-> <<>>, from |-> streams[id].pos]
  /\ last' = [op |-> "BeginReadToEnd", stream |-> id, after |-> Summary(last)]
  /\ UNCHANGED <<m_statusCode, m_reasonPhrase, m_headers, m_bodyStream,
                 streams, cancelled, ctor>>

\* the read made with the Context of the caller instead of a Context of its own
ReadBodyStreamCallerContext(id) == BeginReadToEnd(id, "caller", "ReadBodyStream")

\* ReadBodyStream(stream): Azure::Core::Context context; ReadToEnd(context, *stream)
ReadBodyStream(id) == BeginReadToEnd(id, "own", "ReadBodyStream")

\* ReadToEnd with the Context of the caller, which the caller may cancel
ReadToEnd(id) == BeginReadToEnd(id, "caller", "ReadToEnd")

\* a loop that never looks at its Context
NeverCancelled(context) == FALSE

IsCancelled(context) == context = "caller" /\ cancelled

Finished(outcome, result) ==
  [op |-> "ReadToEnd", stream |-> rd.stream, context |-> rd.context,
   via |-> rd.via, from |-> rd.from, after |-> last.after,
   outcome |-> outcome, result |-> result]

\* a failed read taken for the end of the stream
FailureAsEndOfStream(buffer) == [outcome |-> "ok", result |-> buffer]

\* the failure of an incremental read leaves ReadToEnd as it is: no result
OnReadFailure(buffer) == [outcome |-> "failed", result |-> <<>>]

\* one turn of the loop of ReadToEnd: the cancellation check, then one read
ReadToEndStep ==
  /\ rd.pc = "reading"
  /\ LET s == streams[rd.stream]
         chunk == Read(s)
     IN  IF IsCancelled(rd.context)
           THEN /\ rd' = NotReading
                /\ last' = Finished("cancelled", <<>>)
                /\ UNCHANGED streams
         ELSE IF Fails(s)
           THEN /\ rd' = NotReading
                /\ last' = Finished(OnReadFailure(rd.buffer).outcome,
                                    OnReadFailure(rd.buffer).result)
                /\ UNCHANGED streams
         ELSE IF chunk = <<>>
           THEN /\ rd' = NotReading
                /\ last' = Finished("ok", rd.buffer)
                /\ UNCHANGED streams
         ELSE /\ rd' = [rd EXCEPT !.buffer = rd.buffer \o chunk]
              /\ streams' = [streams EXCEPT ![rd.stream] = Advance(s)]
              /\ UNCHANGED last
  /\ UNCHANGED <<m_statusCode, m_reasonPhrase, m_headers, m_bodyStream,
                 cancelled, ctor>>

\* the caller cancels its Context (another thread, or a deadline)
Cancel ==
  /\ ~cancelled
  /\ cancelled' = TRUE
  /\ UNCHANGED <<m_statusCode, m_reasonPhrase, m_headers, m_bodyStream,
                 streams, rd, ctor, last>>

---------------------------------------------------------------------------
(* Specifications *)

\* Response::Response(statusCode, reasonPhrase): no header, no body
Constructed(statusCode, reasonPhrase) ==
  /\ m_statusCode = statusCode
  /\ m_reasonPhrase = reasonPhrase
  /\ m_headers = {}
  /\ m_bodyStream = NoStream
  /\ ctor = [statusCode |-> statusCode, reasonPhrase |-> reasonPhrase]
  /\ last = [op |-> "none"]

Init ==
  /\ \E c \in StatusCodes, r \in ReasonPhrases : Constructed(c, r)
  /\ streams = <<>>
  /\ rd = NotReading
  /\ cancelled = FALSE

AddHeaderLines == \E header \in HeaderLines : AddHeaderLine(header)

AddHeaders == \E name \in HeaderNames, value \in HeaderValues : AddHeader(name, value)

SetBodyStreams ==
  \/ SetBodyStream(NoStream, <<>>)
  \/ \E chunks \in ResponseBodies : SetBodyStream(Len(streams) + 1, chunks)

ReadChunks == m_bodyStream # NoStream /\ ReadChunk(m_bodyStream)

ReadBodyStreams == m_bodyStream # NoStream /\ ReadBodyStream(m_bodyStream)

\* a Response in the hands of the transport and of its caller
Next ==
  \/ AddHeaderLines
  \/ AddHeaders
  \/ SetBodyStreams
  \/ ReadChunks
  \/ ReadBodyStreams
  \/ ReadToEndStep

Spec == Init /\ [][Next]_vars

\* one raw line parsed into a Response that holds at most one header
FirstHeader == last.op = "none" /\ AddHeaders

ParseLine ==
  /\ last.op \in {"none", "AddHeader"}
  /\ \E header \in ParseLines : AddHeaderLine(header)

\* the Response the lines are parsed into: the status plays no part in the parse
InitParse ==
  /\ Constructed(200, "OK")
  /\ streams = <<>>
  /\ rd = NotReading
  /\ cancelled = FALSE

NextParse == FirstHeader \/ ParseLine

SpecParse == InitParse /\ [][NextParse]_vars

\* a BodyStream in the hands of a caller: incremental reads, bulk reads, cancellation
InitBody ==
  /\ \E c \in StatusCodes, r \in ReasonPhrases : Constructed(c, r)
  /\ \E chunks \in Chunkings : streams = <<NewStream(chunks)>>
  /\ rd = NotReading
  /\ cancelled = FALSE

NextBody ==
  \/ \E id \in DOMAIN streams : ReadChunk(id)
  \/ \E id \in DOMAIN streams : ReadBodyStream(id)
  \/ \E id \in DOMAIN streams : ReadToEnd(id)
  \/ ReadToEndStep
  \/ Cancel

SpecBody == InitBody /\ [][NextBody]_vars

\* a BodyStream one of whose incremental reads fails, in the hands of a caller
InitFail ==
  /\ \E c \in StatusCodes, r \in ReasonPhrases : Constructed(c, r)
  /\ \E chunks \in Chunkings : \E k \in 1..(Len(chunks) + 1) :
       streams = <<FailingStream(chunks, k)>>
  /\ rd = NotReading
  /\ cancelled = FALSE

SpecFail == InitFail /\ [][NextBody]_vars

---------------------------------------------------------------------------
(* Properties of the header collection *)

Names(headers) == {e[1] : e \in headers}

HasColon(line) == \E i \in 1..Len(line) : line[i] = Colon

\* the name and value of the call recorded in a `last` record
Added(call) ==
  IF call.op = "AddHeader" THEN <<call.name, call.value>>
  ELSE <<HeaderName(call.header), HeaderValue(call.header)>>

Adds(call) ==
  \/ call.op = "AddHeader"
  \/ call.op = "AddHeaderLine" /\ HasColon(call.header)

\* C1: after a header is added, by AddHeaderLine or by AddHeader(name, value),
\* GetHeaders holds an entry with its name and its value, next to every entry
\* held before: an insertion under a name already held is neither dropped nor
\* an overwrite, so two insertions under one name give two entries.
C1_DuplicatesRetained ==
  [][Adds(last') /\ last' # last => GetHeaders' = GetHeaders \cup {Added(last')}]_vars

\* C2: a line without ':' (the empty line and "\r" among them) leaves the
\* header collection as it was, whatever the Response holds.
C2_NoColonNoChange ==
  [][last'.op = "AddHeaderLine" /\ ~HasColon(last'.header)
       => GetHeaders' = GetHeaders]_vars

\* a Response that holds a header has just been handed the bare "\r" line
C2_Witness ==
  /\ last.op = "AddHeaderLine"
  /\ last.header = <<CR>>
  /\ GetHeaders # {}

\* line = Name ':' blanks Value '\r', the ':' at position i and Value from
\* position j: Name has no ':', Value has no '\r' and no leading space or tab
WellFormed(line, i, j) ==
  /\ i \in 1..Len(line) /\ j \in (i + 1)..Len(line)
  /\ line[i] = Colon
  /\ \A k \in 1..(i - 1) : line[k] # Colon
  /\ \A k \in (i + 1)..(j - 1) : line[k] \in {Space, Tab}
  /\ line[j] \notin {Space, Tab}
  /\ line[Len(line)] = CR
  /\ \A k \in j..(Len(line) - 1) : line[k] # CR

\* the call stores nothing but <<name, value>>, and stores it when the
\* Response holds no header of that name yet
StoresOnly(name, value) ==
  /\ GetHeaders' \ GetHeaders \subseteq {<<name, value>>}
  /\ GetHeaders \subseteq GetHeaders'
  /\ name \notin Names(GetHeaders) => <<name, value>> \in GetHeaders'

\* C3: for a line Name ':' blanks Value '\r' the entry AddHeaderLine stores
\* has exactly Name as its name and exactly Value as its value, without the
\* blanks before it and without the '\r' behind it.
C3_WellFormedLine ==
  [][last'.op = "AddHeaderLine"
       => \A i, j \in 1..Len(last'.header) :
            WellFormed(last'.header, i, j)
              => StoresOnly(SubSeq(last'.header, 1, i - 1),
                            SubSeq(last'.header, j, Len(last'.header) - 1))]_vars

\* the line "a: A\r" has been stored as the entry a -> A
C3_Witness ==
  /\ last.op = "AddHeaderLine"
  /\ last.header = <<"a", Colon, Space, "A", CR>>
  /\ GetHeaders = {<<(<<"a">>), (<<"A">>)>>}

\* the line ends right behind its first ':' (at position i), or holds only
\* spaces and tabs behind it
EndsBlank(line, i) ==
  /\ i \in 1..Len(line)
  /\ line[i] = Colon
  /\ \A k \in 1..(i - 1) : line[k] # Colon
  /\ \A k \in (i + 1)..Len(line) : line[k] \in {Space, Tab}

\* C4: for a line that ends behind its ':' or holds only spaces and tabs
\* behind it, the entry AddHeaderLine stores has the empty value; the scan for
\* the start of the value reads no position behind the end of the line.
C4_EmptyValue ==
  [][last'.op = "AddHeaderLine"
       => /\ \A i \in 1..Len(last'.header) :
               EndsBlank(last'.header, i)
                 => StoresOnly(SubSeq(last'.header, 1, i - 1), <<>>)
          /\ HasColon(last'.header)
               => ValueStart(last'.header).reads \subseteq 1..Len(last'.header)]_vars

\* the line "A:" and a line of blanks behind ':' stored with the empty value
C4_Witness ==
  /\ last.op = "AddHeaderLine"
  /\ last.header \in {<<"A", Colon>>, <<"A", Colon, Space, Tab>>}
  /\ GetHeaders = {<<(<<"A">>), (<<>>)>>}

\* C5: a header whose name differs from the names held, be it in case only,
\* is stored under its name as given and with its own value, and the entries
\* held keep their names and values: names are not normalized.
C5_CasePreserved ==
  [][Adds(last') /\ Added(last')[1] \notin Names(GetHeaders)
       => GetHeaders' = GetHeaders \cup {Added(last')}]_vars

\* "a" and "A" are both held, each with the value it was added with
C5_Witness ==
  /\ Adds(last)
  /\ Added(last) = <<(<<"A">>), (<<"a">>)>>
  /\ GetHeaders = {<<(<<"a">>), (<<"A">>)>>, <<(<<"A">>), (<<"a">>)>>}

\* C6: the status code and the reason phrase are those given to the
\* constructor, whatever was called since.
C6_StatusImmutable ==
  /\ GetStatusCode = ctor.statusCode
  /\ GetReasonPhrase = ctor.reasonPhrase

\* headers added, a body attached and read to its end
C6_Witness ==
  /\ GetHeaders # {}
  /\ m_bodyStream # NoStream
  /\ last.op = "ReadToEnd"
  /\ last.result # <<>>

---------------------------------------------------------------------------
(* Properties of the body stream *)

\* the bytes behind the first `from` chunks of a stream
BytesFrom(s, from) == Flatten(SubSeq(s.chunks, from + 1, Len(s.chunks)))

\* C7: a bulk read of a fresh BodyStream returns the concatenation of its
\* chunks in order, whatever the chunks are; ReadBodyStream always returns it.
C7_BulkReadConcatenates ==
  last.op = "ReadToEnd" /\ last.from = 0
    => /\ last.via = "ReadBodyStream" => last.outcome = "ok"
       /\ last.outcome = "ok"
            => last.result = Flatten(streams[last.stream].chunks)

\* a stream of two chunks of two bytes read to its end in one bulk read
C7_Witness ==
  /\ last.op = "ReadToEnd" /\ last.from = 0 /\ last.outcome = "ok"
  /\ streams[last.stream].chunks = <<(<<1, 2>>), (<<2, 1>>)>>
  /\ last.result = <<1, 2, 2, 1>>

\* C8: a bulk read returns only bytes behind the cursor it started at; on a
\* drained stream it returns the empty result, and without an error unless
\* its Context was cancelled (ReadBodyStream: always without an error).
C8_SinglePass ==
  last.op = "ReadToEnd"
    => /\ last.outcome = "ok"
            => last.result = BytesFrom(streams[last.stream], last.from)
       /\ last.from = Len(streams[last.stream].chunks)
            => /\ last.result = <<>>
               /\ last.via = "ReadBodyStream" \/ ~cancelled
                    => last.outcome = "ok"

\* a second ReadBodyStream, right after a bulk read that drained the stream
C8_Witness ==
  /\ last.op = "ReadToEnd" /\ last.via = "ReadBodyStream"
  /\ last.after = <<"ReadToEnd", last.stream, "ok">>
  /\ Len(streams[last.stream].chunks) = 2
  /\ last.outcome = "ok" /\ last.result = <<>>

\* C9: once the Context of a bulk read in progress is cancelled, the next
\* turn of its loop ends the read with the cancellation as its outcome and
\* without a result.
C9_CancelStopsRead ==
  [][rd.pc = "reading" /\ rd.context = "caller" /\ cancelled /\ rd' # rd
       => /\ rd'.pc = "idle"
          /\ last'.op = "ReadToEnd"
          /\ last'.outcome = "cancelled"
          /\ last'.result = <<>>]_vars

\* a read of a two-chunk stream cancelled behind its first chunk
C9_Witness ==
  /\ last.op = "ReadToEnd" /\ last.from = 0
  /\ last.outcome = "cancelled"
  /\ Len(streams[last.stream].chunks) = 2
  /\ streams[last.stream].pos = 1

\* C10: the Response holds the stream of the last SetBodyStream call, and of
\* the streams ever attached exactly that one has not been released.
C10_ExclusiveOwner ==
  /\ last.op = "SetBodyStream" => m_bodyStream = last.stream
  /\ m_bodyStream # NoStream => m_bodyStream = Len(streams)
  /\ \A id \in DOMAIN streams : streams[id].released <=> id # m_bodyStream

\* a second stream attached: the first is released, the second is held
C10_Witness ==
  /\ last.op = "SetBodyStream"
  /\ last.held = 1 /\ last.stream = 2
  /\ streams[1].released
  /\ m_bodyStream = 2 /\ ~streams[2].released

\* C11: when the incremental read a bulk read has come to fails, and the read
\* is not cancelled, the bulk read ends with the failure as its outcome and
\* without a result: never as a successful empty or partial result, and not as
\* a cancellation.
C11_FailurePropagates ==
  [][(/\ rd.pc = "reading" /\ rd' # rd
      /\ ~(rd.context = "caller" /\ cancelled)
      /\ streams[rd.stream].failAt = streams[rd.stream].pos + 1)
       => /\ rd'.pc = "idle"
          /\ last'.op = "ReadToEnd"
          /\ last'.outcome = "failed"
          /\ last'.outcome \notin {"ok", "cancelled"}
          /\ last'.result = <<>>]_vars

\* a bulk read of a two-chunk stream that failed at the read of its second chunk
C11_Witness ==
  /\ last.op = "ReadToEnd" /\ last.from = 0
  /\ last.outcome = "failed"
  /\ Len(streams[last.stream].chunks) = 2
  /\ streams[last.stream].failAt = 2
  /\ streams[last.stream].pos = 1

\* position i holds the first ':' of the line
FirstColon(line, i) ==
  /\ i \in 1..Len(line)
  /\ line[i] = Colon
  /\ \A m \in 1..(i - 1) : line[m] # Colon

\* position k is where the text behind position i ends: at the first '\r'
\* behind i, or at the end of the line
CutAt(line, i, k) ==
  /\ k \in (i + 1)..(Len(line) + 1)
  /\ k = Len(line) + 1 \/ line[k] = CR
  /\ \A m \in (i + 1)..(k - 1) : line[m] # CR

\* C12: the line is split at its first ':' only.  The entry AddHeaderLine
\* stores has the whole text before the first ':' as its name (without ':',
\* empty when the line starts with ':'), and as its value the text behind the
\* first ':' less leading spaces and tabs: a later ':' is part of the value,
\* never a second delimiter.
C12_SplitAtFirstColon ==
  [][last'.op = "AddHeaderLine"
       => \A i \in 1..Len(last'.header) :
            FirstColon(last'.header, i)
              => LET line == last'.header
                     name == SubSeq(line, 1, i - 1)
                     stored == GetHeaders' \ GetHeaders
                 IN  /\ GetHeaders \subseteq GetHeaders'
                     /\ name \notin Names(GetHeaders) => stored # {}
                     /\ \A e \in stored :
                          /\ e[1] = name
                          /\ \A m \in 1..Len(e[1]) : e[1][m] # Colon
                          /\ \E k \in (i + 1)..(Len(line) + 1) :
                               /\ CutAt(line, i, k)
                               /\ \E j \in (i + 1)..k :
                                    /\ e[2] = SubSeq(line, j, k - 1)
                                    /\ \A m \in (i + 1)..(j - 1) :
                                         line[m] \in {Space, Tab}]_vars

\* the line "a:A:a" is stored under the name a with the value A:a
C12_Witness ==
  /\ last.op = "AddHeaderLine"
  /\ last.header = <<"a", Colon, "A", Colon, "a">>
  /\ GetHeaders = {<<(<<"a">>), (<<"A", Colon, "a">>)>>}

\* position j is where the value starts: the first position behind the ':' at
\* position i that holds neither a space nor a tab, or the end of the line
StartsAt(line, i, j) ==
  /\ j \in (i + 1)..(Len(line) + 1)
  /\ j = Len(line) + 1 \/ line[j] \notin {Space, Tab}
  /\ \A m \in (i + 1)..(j - 1) : line[m] \in {Space, Tab}

\* C13: the value AddHeaderLine stores starts behind the spaces and tabs that
\* follow the first ':' and behind nothing else, and runs up to the first
\* '\r' or, without one, to the end of the line.  It holds no '\r', nothing
\* that follows the first '\r', and every character in between as it is: a
\* '\n', and spaces and tabs inside and at the end of the value.
C13_ValueBounds ==
  [][last'.op = "AddHeaderLine"
       => \A i \in 1..Len(last'.header) :
            FirstColon(last'.header, i)
              => LET line == last'.header
                     stored == GetHeaders' \ GetHeaders
                 IN  /\ SubSeq(line, 1, i - 1) \notin Names(GetHeaders)
                          => stored # {}
                     /\ \A e \in stored :
                          /\ \A m \in 1..Len(e[2]) : e[2][m] # CR
                          /\ \A j, k \in (i + 1)..(Len(line) + 1) :
                               StartsAt(line, i, j) /\ CutAt(line, i, k)
                                 => e[2] = SubSeq(line, j, k - 1)]_vars

\* the line ":\n \ra" is stored with the value "\n ": the '\n' and the space
\* behind it are kept, the '\r' and the a behind it are not
C13_Witness ==
  /\ last.op = "AddHeaderLine"
  /\ last.header = <<Colon, LF, Space, CR, "a">>
  /\ GetHeaders = {<<(<<>>), (<<LF, Space>>)>>}

\* C14: the header collection only grows.  Every step keeps the entries held,
\* names and values; AddHeaderLine and AddHeader(name, value) add at most one
\* entry; SetBodyStream and the reads of the body leave the collection as it is.
C14_HeadersOnlyGrow ==
  [][/\ GetHeaders \subseteq GetHeaders'
     /\ Cardinality(GetHeaders' \ GetHeaders) <= 1
     /\ last'.op \notin {"AddHeaderLine", "AddHeader"}
          => GetHeaders' = GetHeaders]_vars

\* a Response that has grown to two headers and was then given a body stream
C14_Witness ==
  /\ last.op = "SetBodyStream"
  /\ last.stream # NoStream
  /\ Cardinality(GetHeaders) = 2

====
